---------------------------- MODULE Spec2Model ----------------------------
(***************************************************************************)
(* A model of the locust-stages load generator.                            *)
(*                                                                         *)
(*   SchedSpec  the load-shape scheduler, LoadtestStageHandler             *)
(*              (locustfile.py), over bounded lists of valid stages.       *)
(*   QueueSpec  the shared release queue, RequestQueue (user.py), and the  *)
(*              order and release tasks (tasks.py) run by concurrent       *)
(*              virtual users, one step per shared-state access.           *)
(*   SendSpec   User.send_request and its helpers (user.py) and the        *)
(*              building of requests (requests_tpo.py), one user, one step *)
(*              per HTTP call, against servers that may answer anything.   *)
(*   TokenSpec  the same send_request run by concurrent users that share   *)
(*              the vendors' bearer tokens.                                *)
(*   QueueFairSpec  QueueSpec with every task step and the clock weakly    *)
(*              fair: a user that can take its next step takes it.         *)
(*   CatalogueSpec  one user's tasks over every catalogue of vendor        *)
(*              weights.                                                   *)
(*                                                                         *)
(* Units.  Run time is counted in seconds.  A stage's                      *)
(* minutes_to_reach_target is a float in the source; here the field holds  *)
(* the number of sixtieths of a minute (so 4 is the stage of 4/60 minute)  *)
(* and progress is scaled by 60 to match.  Average response                *)
(* time is kept in milliseconds, as locust's statistics do.  Sines are     *)
(* fixed-point, in hundredths.  The count of a flat stage (curve 0) is     *)
(* computed in binary64 as the source does, rounding after each operation. *)
(***************************************************************************)
EXTENDS Integers, Sequences, FiniteSets, TLC

VARIABLES
    STAGES,                 \* config.STAGES, the configured list of stages
    current_stage_index,    \* LoadtestStageHandler.current_stage_index
    current_stage,          \* LoadtestStageHandler.current_stage
    previous_stage,         \* LoadtestStageHandler.previous_stage
    run_time,               \* LoadTestShape.get_run_time(), seconds since reset_time()
    stats_avg,              \* runner.stats.total.avg_response_time, milliseconds
    tick_result,            \* what the last call of tick() returned
    tick_run_time,          \* get_run_time() as the last tick() read it
    now,                    \* datetime.now(), in seconds
    release_queue,          \* User.release_queue: (Request, datetime) pairs, oldest first
    next_order_id,          \* the next value get_random_order_id() hands out
    pc,                     \* where each virtual user is in its task
    order_request,          \* order(): local order_request of each user
    entry,                  \* order(): the (Release, datetime.now()) pair being put
    order_time,             \* release(): local order_time of each user
    release_request,        \* release(): local release_request of each user
    sent,                   \* the requests handed to send_request() so far
    released_at,            \* history: each Release request sent, with the time of the call
    reported,               \* outcomes recorded with the harness
    put_log,                \* history: the entries put, in the order of the puts
    dequeue_log,            \* history: the requests dequeue() returned, in order
    last_peek,              \* history: the last peek() result, and the peeks since the queue last changed
    invocation,             \* history: what each user's current or last task did
    ENVIRONMENT,            \* config.ENVIRONMENT
    USE_GLOBAL_AUTH_TOKENS, \* config.USE_GLOBAL_AUTH_TOKENS
    bearer_token,           \* VendorInfo.bearer_token of each entry of db.VENDOR_INFOS
    build,                  \* history: how each user's task built its request
    task_request,           \* the Request object each user's task hands to send_request()
    frames,                 \* each user's call stack below the task, innermost last
    response,               \* the response each user's last HTTP call got
    calls,                  \* history: each user's HTTP calls of the current task, in order
    result,                 \* what send_request() returned to each user's task
    send_pc,                \* where each user's task is around send_request()
    scenario                \* the users spawned, what their tasks build and what the servers answer

schedVars == <<STAGES, current_stage_index, current_stage, previous_stage,
               run_time, stats_avg, tick_result, tick_run_time>>

queueVars == <<now, release_queue, next_order_id, pc, order_request, entry,
               order_time, release_request, sent, released_at, reported,
               put_log, dequeue_log, last_peek, invocation>>

sendVars == <<ENVIRONMENT, USE_GLOBAL_AUTH_TOKENS, bearer_token, build, task_request,
              frames, response, calls, result, send_pc, scenario>>

vars == <<schedVars, queueVars, sendVars>>

----------------------------------------------------------------------------
(* Bounds of the model.                                                    *)

\* Longest configured list of stages.
MaxStages == 2

\* The run time the model lets a stage accumulate, in seconds.
MaxRunTime == 6

\* How many times tick() is called again after it has signalled the end.
MaxOverflow == 2

\* Concurrent virtual users.
NumUsers == 2

\* The last second the clock of datetime.now() reaches.
MaxTime == 270

----------------------------------------------------------------------------
(* stage.py                                                                *)

SecondsPerMinute == 60

\* Stage(target_request_per_sec, minutes_to_reach_target, curve)
Stage(rate, sixtieths, curve) ==
    [target_request_per_sec |-> rate,
     minutes_to_reach_target |-> sixtieths,
     curve |-> curve]

\* Stage.__post_init__: the three assertions.
StageValid(s) ==
    /\ s.target_request_per_sec >= 0
    /\ s.minutes_to_reach_target > 0
    /\ s.curve >= 0

\* The stages the model draws its lists from; all of them valid.
StageRates == {0, 5, 6}
StageSixtieths == {2, 4}
StageCurves == {0, 2}

StageSet ==
    {s \in {Stage(r, m, c) : r \in StageRates, m \in StageSixtieths, c \in StageCurves} :
        StageValid(s)}

StageLists ==
    UNION {[1..n -> StageSet] : n \in 1..MaxStages}

----------------------------------------------------------------------------
(* config.py                                                               *)

DEFAULT_RAMPUP == 40

----------------------------------------------------------------------------
(* Arithmetic the scheduler uses.                                          *)

\* math.ceil of the rational n / d, d > 0.
Ceil(n, d) == -((-n) \div d)

RECURSIVE Pow(_, _)
\* base ** exponent for a natural exponent; 0 ** 0 = 1 as in Python.
Pow(base, exponent) ==
    IF exponent = 0 THEN 1 ELSE base * Pow(base, exponent - 1)

\* sin(k * pi / 8) in hundredths, k = 0..4.
SinEighths == <<0, 38, 71, 92, 100>>

\* 1.0 in that unit.
SinScale == SinEighths[5]

SinHalfPi_falling(pn, pd) ==
    LET k == ((4 * pn) \div pd) % 16
    IN  IF k <= 4 THEN SinEighths[5 - k]
        ELSE IF k <= 8 THEN SinEighths[k - 3]
        ELSE IF k <= 12 THEN -SinEighths[13 - k]
        ELSE -SinEighths[k - 11]

\* sin(pn / pd * pi / 2) in hundredths; the progress pn / pd is cut down to
\* a multiple of 1/4.
SinHalfPi(pn, pd) ==
    LET k == ((4 * pn) \div pd) % 16
    IN  IF k <= 4 THEN SinEighths[k + 1]
        ELSE IF k <= 8 THEN SinEighths[8 - k + 1]
        ELSE IF k <= 12 THEN -SinEighths[k - 8 + 1]
        ELSE -SinEighths[16 - k + 1]

----------------------------------------------------------------------------
(* Python's float: IEEE 754 binary64, every operation rounded to nearest,  *)
(* ties to even.  A float is sign * m * 2^e; its m is a natural number     *)
(* below 2^60, held as hi * 2^30 + lo to stay within the checker's         *)
(* integers.  The operations are exact for an average of milliseconds and  *)
(* rates below 2^6.                                                        *)

\* Bits of a binary64 significand.
Precision == 53

\* Bits of each of the two halves of m.
LimbBits == 30

Limb == Pow(2, LimbBits)

Wide(hi, lo) == [hi |-> hi, lo |-> lo]

WideAdd(x, y) ==
    Wide(x.hi + y.hi + (x.lo + y.lo) \div Limb, (x.lo + y.lo) % Limb)

\* x - y for x >= y.
WideSub(x, y) ==
    IF x.lo < y.lo THEN Wide(x.hi - y.hi - 1, x.lo - y.lo + Limb)
    ELSE Wide(x.hi - y.hi, x.lo - y.lo)

WideLess(x, y) == x.hi < y.hi \/ (x.hi = y.hi /\ x.lo < y.lo)

RECURSIVE WideMul(_, _)
\* x * k for a natural number k.
WideMul(x, k) ==
    IF k = 0 THEN Wide(0, 0)
    ELSE IF k % 2 = 1
         THEN WideAdd(WideAdd(WideMul(x, k \div 2), WideMul(x, k \div 2)), x)
         ELSE WideAdd(WideMul(x, k \div 2), WideMul(x, k \div 2))

\* The whole part of x / 2^s.
WideShiftRight(x, s) ==
    IF s >= 2 * LimbBits THEN Wide(0, 0)
    ELSE IF s >= LimbBits THEN Wide(0, x.hi \div Pow(2, s - LimbBits))
    ELSE Wide(x.hi \div Pow(2, s),
              x.lo \div Pow(2, s) + (x.hi % Pow(2, s)) * Pow(2, LimbBits - s))

\* Whether x / 2^s has a fractional part.
WideFraction(x, s) ==
    IF s >= 2 * LimbBits THEN x # Wide(0, 0)
    ELSE IF s >= LimbBits THEN x.lo # 0 \/ x.hi % Pow(2, s - LimbBits) # 0
    ELSE x.lo % Pow(2, s) # 0

RECURSIVE BitLength(_)
BitLength(n) == IF n = 0 THEN 0 ELSE 1 + BitLength(n \div 2)

WideBitLength(x) ==
    IF x.hi > 0 THEN LimbBits + BitLength(x.hi) ELSE BitLength(x.lo)

\* The float nearest to sign * (m + f) * 2^e, where 0 <= f < 1 and `sticky`
\* says whether f > 0.
RoundNearestEven(neg, m, e, sticky) ==
    LET s == WideBitLength(m) - Precision
    IN  IF s <= 0 THEN [neg |-> neg, m |-> m, e |-> e]
        ELSE LET q == WideShiftRight(m, s)
                 low == m.lo % Pow(2, s)
                 half == Pow(2, s - 1)
                 up == \/ low > half
                       \/ low = half /\ (sticky \/ q.lo % 2 = 1)
             IN  [neg |-> neg,
                  m |-> IF up THEN WideAdd(q, Wide(0, 1)) ELSE q,
                  e |-> e + s]

RECURSIVE Halves(_, _)
\* The j for which n / (d * 2^j) lies in [1/2, 1), for n > 0.
Halves(n, d) ==
    IF n >= d THEN 1 + Halves(n, 2 * d)
    ELSE IF 2 * n < d THEN Halves(2 * n, d) - 1
    ELSE 0

\* n / d for the numbers n >= 0 and d > 0: the quotient of the long division
\* to 60 binary places, a quarter of them at a time, rounded.
float_div(n, d) ==
    IF n = 0 THEN [neg |-> FALSE, m |-> Wide(0, 0), e |-> 0]
    ELSE LET j == Halves(n, d)
             nn == IF j < 0 THEN n * Pow(2, -j) ELSE n
             dd == IF j > 0 THEN d * Pow(2, j) ELSE d
             step == Pow(2, LimbBits \div 2)
             r1 == (nn * step) % dd
             r2 == (r1 * step) % dd
             r3 == (r2 * step) % dd
             r4 == (r3 * step) % dd
         IN  RoundNearestEven(
                 FALSE,
                 Wide(((nn * step) \div dd) * step + (r1 * step) \div dd,
                      ((r2 * step) \div dd) * step + (r3 * step) \div dd),
                 j - 2 * LimbBits, r4 # 0)

\* x * k for the float x and the integer k.
float_mul(x, k) ==
    RoundNearestEven(x.neg # (k < 0),
                     WideMul(x.m, IF k < 0 THEN -k ELSE k), x.e, FALSE)

\* x + y
float_add(x, y) ==
    IF x.m = Wide(0, 0) THEN y
    ELSE IF y.m = Wide(0, 0) THEN x
    ELSE LET e == IF x.e < y.e THEN x.e ELSE y.e
             a == WideMul(x.m, Pow(2, x.e - e))
             b == WideMul(y.m, Pow(2, y.e - e))
         IN  IF x.neg = y.neg THEN RoundNearestEven(x.neg, WideAdd(a, b), e, FALSE)
             ELSE IF WideLess(a, b)
                  THEN RoundNearestEven(y.neg, WideSub(b, a), e, FALSE)
                  ELSE RoundNearestEven(x.neg, WideSub(a, b), e, FALSE)

\* math.ceil(x), an integer, for |x| < 2^30.
float_ceil(x) ==
    IF x.e >= 0 THEN (IF x.neg THEN -1 ELSE 1) * x.m.lo * Pow(2, x.e)
    ELSE IF x.neg THEN -WideShiftRight(x.m, -x.e).lo
    ELSE WideShiftRight(x.m, -x.e).lo
            + (IF WideFraction(x.m, -x.e) THEN 1 ELSE 0)

----------------------------------------------------------------------------
(* locustfile.py: LoadtestStageHandler                                     *)

\* What tick() returns: None, or (user_count, DEFAULT_RAMPUP).
NotCalled == [ret |-> "not called", user_count |-> 0, rampup |-> 0]
None == [ret |-> "None", user_count |-> 0, rampup |-> 0]
Value(user_count) ==
    [ret |-> "value", user_count |-> user_count, rampup |-> DEFAULT_RAMPUP]

\* progress = get_run_time() / minutes_to_reach_target / 60, as the pair
\* numerator, denominator.
ProgressNum(rt) == rt * 60
ProgressDen(stage) == stage.minutes_to_reach_target * SecondsPerMinute

ProgressGe1(rt, stage) == ProgressNum(rt) >= ProgressDen(stage)

DefaultAvgMs == 500

\* avg_response_time, in milliseconds (the source divides by 1000 and falls
\* back to 0.5 s).
avg_response_time(avg) == IF avg > 0 THEN avg ELSE DefaultAvgMs

\* A product avg_response_time * rate of the source, as its two factors: the
\* average in milliseconds and the rate.
Product(avg, rate) == [avg |-> avg, rate |-> rate]

\* The product as a real number, times 1000.
Exact(p) == p.avg * p.rate

\* The product as the source computes it: the average divided by 1000, then
\* multiplied by the rate, in floats.
Float(p) == float_mul(float_div(p.avg, 1000), p.rate)

min_users(avg, prev) ==
    Product(avg_response_time(avg), prev.target_request_per_sec)

max_users_swapped(avg, cur, prev) ==
    Product(avg_response_time(avg),
            prev.target_request_per_sec - cur.target_request_per_sec)

max_users(avg, cur, prev) ==
    Product(avg_response_time(avg),
            cur.target_request_per_sec - prev.target_request_per_sec)

\* ceil(max_users * sin(progress * pi / 2).real ** curve + min_users).
\* With curve = 0 the power is 1.0 whatever the sine is (0.0 ** 0 is 1.0) and
\* max_users * 1.0 is max_users, so the sum is the float sum of the two
\* products.  With another curve the sine comes from the table, and the sum
\* is computed in the table's fixed point.
user_count(avg, rt, cur, prev) ==
    IF cur.curve = 0
    THEN float_ceil(float_add(Float(max_users(avg, cur, prev)),
                              Float(min_users(avg, prev))))
    ELSE LET s == SinHalfPi(ProgressNum(rt), ProgressDen(cur))
             unit == Pow(SinScale, cur.curve)
         IN  Ceil(Exact(max_users(avg, cur, prev)) * Pow(s, cur.curve)
                     + Exact(min_users(avg, prev)) * unit,
                  1000 * unit)

\* The counts tick() may return right after begin_next_stage().  reset_time()
\* reads the clock and self.progress reads it again, so the progress is 0 or,
\* when the clock has moved between the two, a sliver above 0.  The sliver
\* makes sin(..) ** curve a positive number below any the table holds (1.0
\* still for curve = 0): added to a min_users that is a whole number, a
\* positive max_users times it either vanishes in the rounding of the sum or
\* lifts the ceiling by one, and always lifts it when min_users is 0.
user_count_after_reset(avg, cur, prev) ==
    LET at_zero == user_count(avg, 0, cur, prev)
    IN  {at_zero} \cup
        (IF /\ cur.curve > 0
            /\ Exact(max_users(avg, cur, prev)) > 0
            /\ Exact(min_users(avg, prev)) % 1000 = 0
         THEN {at_zero + 1} ELSE {})

\* begin_next_stage(), as the handler's fields after it and the exception it
\* raised.  The first two assignments come before the lookup
\* STAGES[current_stage_index] that raises IndexError, reset_time() after it.
\* The index is 0-based in the source and STAGES is 1-based here.
begin_next_stage_resets_first(idx, cur, prev, rt, stages) ==
    [previous_stage |-> cur,
     current_stage_index |-> idx + 1,
     current_stage |-> IF idx + 1 < Len(stages) THEN stages[idx + 2] ELSE cur,
     run_time |-> 0,
     raised |-> IF idx + 1 < Len(stages) THEN "none" ELSE "IndexError"]

begin_next_stage_skips_elapsed(idx, cur, prev, rt, stages) ==
    LET step == IF /\ idx + 1 < Len(stages)
                   /\ rt >= cur.minutes_to_reach_target
                            + stages[idx + 2].minutes_to_reach_target
                THEN 2 ELSE 1
    IN  [previous_stage |-> cur,
         current_stage_index |-> idx + step,
         current_stage |-> IF idx + step < Len(stages)
                           THEN stages[idx + step + 1] ELSE cur,
         run_time |-> IF idx + step < Len(stages) THEN 0 ELSE rt,
         raised |-> IF idx + step < Len(stages) THEN "none" ELSE "IndexError"]

begin_next_stage(idx, cur, prev, rt, stages) ==
    [previous_stage |-> cur,
     current_stage_index |-> idx + 1,
     current_stage |-> IF idx + 1 < Len(stages) THEN stages[idx + 2] ELSE cur,
     run_time |-> IF idx + 1 < Len(stages) THEN 0 ELSE rt,
     raised |-> IF idx + 1 < Len(stages) THEN "none" ELSE "IndexError"]

\* tick()
tick ==
    /\ current_stage_index < Len(STAGES) + MaxOverflow
    /\ tick_run_time' = run_time
    /\ IF ProgressGe1(run_time, current_stage)
       THEN LET next == begin_next_stage(current_stage_index, current_stage,
                                         previous_stage, run_time, STAGES)
            IN  /\ previous_stage' = next.previous_stage
                /\ current_stage_index' = next.current_stage_index
                /\ current_stage' = next.current_stage
                /\ run_time' = next.run_time
                /\ IF next.raised = "IndexError"
                   THEN tick_result' = None  \* except IndexError: return None
                   ELSE \E count \in user_count_after_reset(
                                         stats_avg, next.current_stage,
                                         next.previous_stage) :
                           tick_result' = Value(count)
       ELSE /\ tick_result' =
                 Value(user_count(stats_avg, run_time, current_stage, previous_stage))
            /\ UNCHANGED <<current_stage_index, current_stage, previous_stage, run_time>>
    /\ UNCHANGED <<STAGES, stats_avg>>
    /\ UNCHANGED <<queueVars, sendVars>>

\* Time passes between two calls of tick().
Elapse ==
    /\ run_time < MaxRunTime
    /\ run_time' = run_time + 1
    /\ UNCHANGED <<STAGES, current_stage_index, current_stage, previous_stage,
                   stats_avg, tick_result, tick_run_time>>
    /\ UNCHANGED <<queueVars, sendVars>>

\* The virtual users' requests move the harness's rolling average.
AvgSamples == {0, 200, 1200}

StatsUpdate ==
    /\ \E a \in AvgSamples : a # stats_avg /\ stats_avg' = a
    /\ UNCHANGED <<STAGES, current_stage_index, current_stage, previous_stage,
                   run_time, tick_result, tick_run_time>>
    /\ UNCHANGED <<queueVars, sendVars>>

\* The handler as the class body leaves it, for the list of stages `stages`.
SchedStart(stages) ==
    /\ STAGES = stages
    /\ current_stage_index = 0
    /\ current_stage = stages[1]
    /\ previous_stage = Stage(0, 60, 0)
    /\ run_time = 0
    /\ stats_avg = 0
    /\ tick_result = NotCalled
    /\ tick_run_time = 0

----------------------------------------------------------------------------
(* user.py: RequestQueue; requests_tpo.py: the requests the tasks build    *)

Users == 1..NumUsers

\* The vendors an Order or a Release picks from are those of
\* _setup_vendor_implementations; two of them stand for the five.
OrderVendors == {"DOORDASH", "UBEREATS"}

\* The store ids get_random_store_id draws from 15 up to the market's
\* configured number of stores, taken to be at least 16; two stand for the range.
StoreIds == {15, 16}

\* The order ids get_random_order_id hands out, each once (a UUID4 does not
\* repeat); two stand for the space of them.
OrderIds == {1, 2}

NoRequest == [kind |-> "None", vendor |-> "None", store_id |-> 0, order_id |-> 0]

\* Order(): vendor, store id and order id are drawn at construction.
Order(vendor, store_id, order_id) ==
    [kind |-> "Order", vendor |-> vendor, store_id |-> store_id, order_id |-> order_id]

\* Release(vendor_info=..., store_id=..., order_id=...)
Release(vendor, store_id, order_id) ==
    [kind |-> "Release", vendor |-> vendor, store_id |-> store_id, order_id |-> order_id]

NoEntry == <<NoRequest, 0>>

\* Queue.put(item) on the unbounded queue: appended under the mutex.
put(queue, item) == Append(queue, item)

peek_by_get(queue) ==
    IF Len(queue) = 0
    THEN [raised |-> "Empty", value |-> 0, queue |-> queue]
    ELSE [raised |-> "none", value |-> queue[1][2], queue |-> Tail(queue)]

peek_defaults_on_empty(queue) ==
    IF Len(queue) = 0
    THEN [raised |-> "none", value |-> 0, queue |-> queue]
    ELSE [raised |-> "none", value |-> queue[1][2], queue |-> queue]

\* RequestQueue.peek(): list(self.queue)[0][1] under the mutex, IndexError
\* turned into Empty; with the queue as the call leaves it.
peek(queue) ==
    IF Len(queue) = 0
    THEN [raised |-> "Empty", value |-> 0, queue |-> queue]
    ELSE [raised |-> "none", value |-> queue[1][2], queue |-> queue]

dequeue_keeps_head(queue) ==
    IF Len(queue) = 0
    THEN [raised |-> "Empty", value |-> NoRequest, queue |-> queue]
    ELSE [raised |-> "none", value |-> queue[1][1], queue |-> queue]

dequeue_newest(queue) ==
    IF Len(queue) = 0
    THEN [raised |-> "Empty", value |-> NoRequest, queue |-> queue]
    ELSE [raised |-> "none", value |-> queue[Len(queue)][1],
          queue |-> SubSeq(queue, 1, Len(queue) - 1)]

dequeue_defaults_on_empty(queue) ==
    IF Len(queue) = 0
    THEN [raised |-> "none", value |-> NoRequest, queue |-> queue]
    ELSE [raised |-> "none", value |-> queue[1][1], queue |-> Tail(queue)]

\* RequestQueue.dequeue(): self.get_nowait()[0]; get_nowait() raises Empty on
\* an empty queue and pops the leftmost item otherwise, under the mutex.
dequeue(queue) ==
    IF Len(queue) = 0
    THEN [raised |-> "Empty", value |-> NoRequest, queue |-> queue]
    ELSE [raised |-> "none", value |-> queue[1][1], queue |-> Tail(queue)]

----------------------------------------------------------------------------
(* config.py, tasks.py                                                     *)

RELEASE_WAIT_TIME_SEC == 180

\* What a task invocation did: which task, whether peek() returned, whether
\* the head was old enough, how many entries it dequeued, how many requests
\* it sent, the exception it caught and the one that escaped it.
NoInvocation ==
    [task |-> "none", peeked |-> FALSE, ready |-> FALSE, dequeued |-> 0,
     sent |-> 0, caught |-> "none", escaped |-> "none"]

Began(task) == [NoInvocation EXCEPT !.task = task]

\* The locals of a task are gone when it returns.
Return(u) ==
    /\ pc' = [pc EXCEPT ![u] = "idle"]
    /\ order_request' = [order_request EXCEPT ![u] = NoRequest]
    /\ entry' = [entry EXCEPT ![u] = NoEntry]
    /\ order_time' = [order_time EXCEPT ![u] = 0]
    /\ release_request' = [release_request EXCEPT ![u] = NoRequest]

\* How a call of user.send_request ends for the task that made it: it
\* returns the body, or the AttributeError of a token call answered with JSON
\* that is no object leaves it, before the request went out (the token call
\* ahead of it) or after (the token call of the retry).
SendOutcomes == {"returned", "raised unsent", "raised sent"}

Escaped(outcome) == IF outcome = "returned" THEN "none" ELSE "AttributeError"

\* user.send_request(request), as far as the tasks are concerned: the call is
\* made and its outcome recorded with the harness.
send_request(request, outcome) ==
    /\ sent' = IF outcome = "raised unsent" THEN sent ELSE sent \cup {request}
    /\ released_at' =
         IF request.kind = "Release" /\ outcome # "raised unsent"
         THEN released_at \cup {[request |-> request, at |-> now]}
         ELSE released_at
    /\ reported' = reported + 1

\* order(): order_request = Order(); response = user.send_request(order_request);
\* an exception out of send_request ends the task
OrderSend(u) ==
    /\ pc[u] = "idle"
    /\ next_order_id \in OrderIds
    /\ \E v \in OrderVendors, s \in StoreIds, outcome \in SendOutcomes :
         LET request == Order(v, s, next_order_id)
         IN  /\ send_request(request, outcome)
             /\ invocation' =
                  [invocation EXCEPT ![u] =
                     [Began("order") EXCEPT
                         !.sent = IF outcome = "raised unsent" THEN 0 ELSE 1,
                         !.escaped = Escaped(outcome)]]
             /\ IF outcome = "returned"
                THEN /\ order_request' = [order_request EXCEPT ![u] = request]
                     /\ pc' = [pc EXCEPT ![u] = "order_sent"]
                ELSE UNCHANGED <<order_request, pc>>
    /\ next_order_id' = next_order_id + 1
    /\ UNCHANGED <<now, release_queue, entry, order_time, release_request,
                   put_log, dequeue_log, last_peek>>
    /\ UNCHANGED <<schedVars, sendVars>>

\* order(): the argument of put is evaluated, (Release(...), datetime.now())
OrderStamp(u) ==
    /\ pc[u] = "order_sent"
    /\ entry' = [entry EXCEPT ![u] =
                   <<Release(order_request[u].vendor, order_request[u].store_id,
                             order_request[u].order_id), now>>]
    /\ pc' = [pc EXCEPT ![u] = "order_stamped"]
    /\ UNCHANGED <<now, release_queue, next_order_id, order_request, order_time,
                   release_request, sent, released_at, reported, put_log,
                   dequeue_log, last_peek, invocation>>
    /\ UNCHANGED <<schedVars, sendVars>>

\* order(): user.release_queue.put(...), and the task returns
OrderPut(u) ==
    /\ pc[u] = "order_stamped"
    /\ release_queue' = put(release_queue, entry[u])
    /\ put_log' = Append(put_log, entry[u])
    /\ last_peek' = [last_peek EXCEPT !.count = 0]
    /\ Return(u)
    /\ UNCHANGED <<now, next_order_id, sent, released_at, reported, dequeue_log,
                   invocation>>
    /\ UNCHANGED <<schedVars, sendVars>>

\* release(): order_time = user.release_queue.peek(); Empty ends the task
ReleasePeek(u) ==
    /\ pc[u] = "idle"
    /\ LET r == peek(release_queue)
       IN  /\ release_queue' = r.queue
           /\ IF r.raised = "Empty"
              THEN /\ invocation' = [invocation EXCEPT ![u] =
                                       [Began("release") EXCEPT !.caught = "Empty"]]
                   /\ Return(u)
                   /\ UNCHANGED last_peek
              ELSE /\ invocation' = [invocation EXCEPT ![u] =
                                       [Began("release") EXCEPT !.peeked = TRUE]]
                   /\ order_time' = [order_time EXCEPT ![u] = r.value]
                   /\ pc' = [pc EXCEPT ![u] = "peeked"]
                   /\ last_peek' = [count |-> IF last_peek.count = 0 THEN 1 ELSE 2,
                                    value |-> r.value]
                   /\ UNCHANGED <<order_request, entry, release_request>>
    /\ UNCHANGED <<now, next_order_id, sent, released_at, reported, put_log,
                   dequeue_log>>
    /\ UNCHANGED <<schedVars, sendVars>>

\* release(): duration = datetime.now() - order_time;
\* if duration.total_seconds() >= RELEASE_WAIT_TIME_SEC
ReleaseCheck(u) ==
    /\ pc[u] = "peeked"
    /\ IF now - order_time[u] >= RELEASE_WAIT_TIME_SEC
       THEN /\ pc' = [pc EXCEPT ![u] = "ready"]
            /\ invocation' = [invocation EXCEPT ![u].ready = TRUE]
            /\ UNCHANGED <<order_request, entry, order_time, release_request>>
       ELSE /\ Return(u)
            /\ UNCHANGED invocation
    /\ UNCHANGED <<now, release_queue, next_order_id, sent, released_at, reported,
                   put_log, dequeue_log, last_peek>>
    /\ UNCHANGED <<schedVars, sendVars>>

\* release(): release_request = user.release_queue.dequeue(); Empty ends the task
ReleaseDequeue(u) ==
    /\ pc[u] = "ready"
    /\ LET r == dequeue(release_queue)
       IN  /\ release_queue' = r.queue
           /\ IF r.raised = "Empty"
              THEN /\ invocation' = [invocation EXCEPT ![u].caught = "Empty"]
                   /\ Return(u)
                   /\ UNCHANGED <<dequeue_log, last_peek>>
              ELSE /\ invocation' = [invocation EXCEPT ![u].dequeued = @ + 1]
                   /\ release_request' = [release_request EXCEPT ![u] = r.value]
                   /\ dequeue_log' = Append(dequeue_log, r.value)
                   /\ last_peek' = [last_peek EXCEPT !.count = 0]
                   /\ pc' = [pc EXCEPT ![u] = "dequeued"]
                   /\ UNCHANGED <<order_request, entry, order_time>>
    /\ UNCHANGED <<now, next_order_id, sent, released_at, reported, put_log>>
    /\ UNCHANGED <<schedVars, sendVars>>

\* release(): response = user.send_request(release_request), and the task
\* returns or the exception leaves it
ReleaseSend(u) ==
    /\ pc[u] = "dequeued"
    /\ \E outcome \in SendOutcomes :
         /\ send_request(release_request[u], outcome)
         /\ invocation' =
              [invocation EXCEPT
                 ![u].sent = IF outcome = "raised unsent" THEN @ ELSE @ + 1,
                 ![u].escaped = Escaped(outcome)]
    /\ Return(u)
    /\ UNCHANGED <<now, release_queue, next_order_id, put_log, dequeue_log,
                   last_peek>>
    /\ UNCHANGED <<schedVars, sendVars>>

\* The clock of datetime.now() moves on.
ClockSteps == {90, 180}

ClockAdvance ==
    /\ \E d \in ClockSteps :
         /\ now + d <= MaxTime
         /\ now' = now + d
    /\ UNCHANGED <<release_queue, next_order_id, pc, order_request, entry,
                   order_time, release_request, sent, released_at, reported,
                   put_log, dequeue_log, last_peek, invocation>>
    /\ UNCHANGED <<schedVars, sendVars>>

\* The module as imported: an empty queue shared by all users, every user
\* between two tasks.
QueueStart ==
    /\ now = 0
    /\ release_queue = <<>>
    /\ next_order_id = 1
    /\ pc = [u \in Users |-> "idle"]
    /\ order_request = [u \in Users |-> NoRequest]
    /\ entry = [u \in Users |-> NoEntry]
    /\ order_time = [u \in Users |-> 0]
    /\ release_request = [u \in Users |-> NoRequest]
    /\ sent = {}
    /\ released_at = {}
    /\ reported = 0
    /\ put_log = <<>>
    /\ dequeue_log = <<>>
    /\ last_peek = [count |-> 0, value |-> 0]
    /\ invocation = [u \in Users |-> NoInvocation]

----------------------------------------------------------------------------
(* enums.py, db.py, utils.py, requests_tpo.py: vendors and the building of *)
(* a request.                                                              *)

\* The deepest stack of HTTP calls the model follows within one task.
MaxCalls == 5

\* enums.Environment
Environments == {"PERF", "ALB", "NLB"}

\* enums.Vendor
Vendor == {"DOORDASH", "UBEREATS", "GRUBHUB", "POSTMATES", "SKIPTHEDISHES"}

\* db.BEARER_PLACE_HOLDER
BEARER_PLACE_HOLDER == "Bearer placeholder"

\* db.VENDOR_INFOS: one entry of each implementation; the second is of a
\* vendor that has no menu request.
VENDOR_INFOS ==
    <<[vendor |-> "DOORDASH", market |-> "US", weight |-> 1,
       implementation |-> "STANDARD"],
      [vendor |-> "UBEREATS", market |-> "US", weight |-> 1,
       implementation |-> "UBER"]>>

\* The entries of VENDOR_INFOS, each known by its vendor.
VendorInfos == {VENDOR_INFOS[i].vendor : i \in DOMAIN VENDOR_INFOS}

VendorInfo(vendor) ==
    VENDOR_INFOS[CHOOSE i \in DOMAIN VENDOR_INFOS : VENDOR_INFOS[i].vendor = vendor]

\* vendor_info=None, vendor_implementations=None, success_status_codes=None
NoVendorInfo == "None"
NoImplementations == {"None"}
NoStatusCodes == {-1}

\* The classes of request.
RequestKinds == {"GetMenu", "Order", "Release", "TokenGeneration"}

\* _setup_vendor_implementations of GetMenu, Order and Release: the given
\* dict if there is one, the class's own otherwise.  TokenGeneration leaves
\* the field alone.
_setup_vendor_implementations(kind, vendor_implementations) ==
    IF vendor_implementations # NoImplementations \/ kind = "TokenGeneration"
    THEN vendor_implementations
    ELSE IF kind = "GetMenu"
         THEN {"DOORDASH", "GRUBHUB", "POSTMATES"}
         ELSE {"DOORDASH", "UBEREATS", "GRUBHUB", "POSTMATES", "SKIPTHEDISHES"}

\* The weight of every entry of VENDOR_INFOS as db.py sets it.
ConfiguredWeights == [v \in VendorInfos |-> VendorInfo(v).weight]

get_random_vendor_info_unweighted(implemented_vendors) ==
    LET vendor_infos == {v \in VendorInfos : v \in implemented_vendors}
    IN  [raised |-> IF vendor_infos = {} THEN "IndexError" ELSE "no",
         choices |-> vendor_infos]

\* utils.get_random_vendor_info: random.choices(vendor_infos, weights) over
\* the entries of an implemented vendor.  random.choices draws a point below
\* the total of the weights and takes the entry whose share holds it, so an
\* entry of weight 0 is never drawn; it raises IndexError on an empty list
\* and ValueError on weights that add up to zero.  The weights are those of
\* the catalogue in use, scenario.weights.
get_random_vendor_info(implemented_vendors) ==
    LET vendor_infos == {v \in VendorInfos : v \in implemented_vendors}
        choices == {v \in vendor_infos : scenario.weights[v] > 0}
    IN  [raised |-> IF vendor_infos = {} THEN "IndexError"
                    ELSE IF choices = {} THEN "ValueError" ELSE "no",
         choices |-> choices]

_setup_vendor_info_unchecked(kind, vendor_info, vendor_implementations) ==
    IF vendor_info = NoVendorInfo
    THEN [raised |-> get_random_vendor_info(Vendor).raised,
          choices |-> get_random_vendor_info(Vendor).choices]
    ELSE [raised |-> "no", choices |-> {vendor_info}]

\* Request._setup_vendor_info, and TokenGeneration's override of it: the
\* vendors the request may end up with, or the exception raised.
_setup_vendor_info(kind, vendor_info, vendor_implementations) ==
    IF kind = "TokenGeneration"
    THEN IF vendor_info = NoVendorInfo
         THEN [raised |-> get_random_vendor_info(Vendor).raised,
               choices |-> get_random_vendor_info(Vendor).choices]
         ELSE [raised |-> "no", choices |-> {vendor_info}]
    ELSE IF vendor_info = NoVendorInfo
         THEN [raised |-> get_random_vendor_info(vendor_implementations).raised,
               choices |-> get_random_vendor_info(vendor_implementations).choices]
         ELSE IF vendor_info \notin vendor_implementations
              THEN [raised |-> "RequestNotImplementedException", choices |-> {}]
              ELSE [raised |-> "no", choices |-> {vendor_info}]

\* Request._setup_success_status_codes
_setup_success_status_codes(success_status_codes) ==
    IF success_status_codes = NoStatusCodes THEN {200, 201}
    ELSE success_status_codes

\* A Request object, as far as send_request() reads it.  bearer is
\* headers["Authorization"]; method is the dataclass field of Request and
\* request_method the field GetMenu declares beside it ("None" for the
\* classes that have no such field).
NoSendRequest ==
    [kind |-> "None", vendor |-> "None", method |-> "None",
     request_method |-> "None", bearer |-> "None",
     success_status_codes |-> {}]

\* Request.method: str = "POST"; no subclass redeclares the field and no
\* caller of the repository gives one.
DefaultMethod == "POST"

\* GetMenu.request_method: str = "GET"
request_method(kind) == IF kind = "GetMenu" THEN "GET" ELSE "None"

\* Request._setup_request_headers, and TokenGeneration's override of it:
\* Authorization is the vendor's shared bearer token as it is when the
\* request is built, and the vendor's basic token for a TokenGeneration.
BuiltRequest(kind, vendor, shared, success_status_codes) ==
    [kind |-> kind, vendor |-> vendor, method |-> DefaultMethod,
     request_method |-> request_method(kind),
     bearer |-> IF kind = "TokenGeneration" THEN "Basic" ELSE shared[vendor],
     success_status_codes |-> _setup_success_status_codes(success_status_codes)]

\* TokenGeneration(vendor_info=request.vendor_info): its Authorization is
\* the vendor's basic token.
TokenGeneration(vendor) ==
    [kind |-> "TokenGeneration", vendor |-> vendor, method |-> DefaultMethod,
     request_method |-> request_method("TokenGeneration"), bearer |-> "Basic",
     success_status_codes |-> _setup_success_status_codes(NoStatusCodes)]

\* What the tasks and callers hand to the constructors.
GivenVendorInfos == VendorInfos \cup {NoVendorInfo}
GivenImplementations == {NoImplementations, {"UBEREATS"}, {"GRUBHUB"}}
GivenStatusCodes == {NoStatusCodes, {200, 500}}

NoBuild ==
    [kind |-> "None", vendor_info |-> NoVendorInfo,
     vendor_implementations |-> NoImplementations, raised |-> "no"]

----------------------------------------------------------------------------
(* user.py: User.send_request and its helpers.                             *)

\* Status codes and bodies of the responses the servers give.  A text has
\* what response.json() makes of it, the token a JSON object carries, and
\* the message it holds.  NoText is a response.text of None.
StatusCodes == {200, 401, 500}

NoToken == "None"

Text(json, token, says) == [json |-> json, token |-> token, says |-> says]

NoText == Text("None", NoToken, "")

Texts ==
    { NoText,
      Text("malformed", NoToken, ""),
      Text("malformed", NoToken, "Invalid authorization token"),
      Text("object", "t1", "{token: t1}"),
      Text("object", "t2", "{token: t2}"),
      Text("object", NoToken, "{orderId: 1}"),
      Text("object", NoToken, "{message: Token is expired}"),
      Text("other", NoToken, "[]") }

Responses == [status_code : StatusCodes, text : Texts]

NoResponse == [status_code |-> 0, text |-> NoText]

\* `needle in response.text`
Contains(text, needle) ==
    \/ needle = "Token is expired" /\ text.says = "{message: Token is expired}"
    \/ needle = "Invalid authorization token"
          /\ text.says = "Invalid authorization token"

\* The values send_request() returns: a parsed JSON value (a dict or
\* something else), or the dict {"code": ..., "text": ...}.
NoBody == [kind |-> "None", token |-> NoToken, code |-> 0, text |-> NoText]

\* response.json(): the parsed value, or JSONDecodeError.
json(r) ==
    IF r.text.json \in {"object", "other"}
    THEN [raised |-> FALSE,
          value |-> [kind |-> r.text.json, token |-> r.text.token,
                     code |-> 0, text |-> r.text]]
    ELSE [raised |-> TRUE, value |-> NoBody]

\* result.get("token"): a dict's value or None; anything that is no dict
\* raises AttributeError.
get_token(body) ==
    [raised |-> body.kind = "other",
     value |-> IF body.kind = "object" THEN body.token ELSE NoToken]

_parse_response_body_unmarked(r) ==
    [body |-> IF json(r).raised
              THEN [kind |-> "fallback", token |-> NoToken,
                    code |-> r.status_code, text |-> r.text]
              ELSE json(r).value,
     failure |-> FALSE]

\* User._parse_response_body: the body, and whether response.failure() was
\* called.
_parse_response_body(r) ==
    IF json(r).raised
    THEN [body |-> [kind |-> "fallback", token |-> NoToken,
                    code |-> r.status_code, text |-> r.text],
          failure |-> TRUE]
    ELSE [body |-> json(r).value, failure |-> FALSE]

\* User._was_request_a_failure:
\*   type(request) is TokenGeneration and result.get("token") is None
\*   or status_code not in request.success_status_codes
_was_request_a_failure(req, status_code, body) ==
    IF req.kind = "TokenGeneration"
    THEN IF get_token(body).raised
         THEN [raised |-> TRUE, value |-> FALSE]
         ELSE [raised |-> FALSE,
               value |-> \/ get_token(body).value = NoToken
                         \/ status_code \notin req.success_status_codes]
    ELSE [raised |-> FALSE,
          value |-> status_code \notin req.success_status_codes]

\* User._is_token_invalid
_is_token_invalid(r, req) ==
    LET is_token_expired ==
            r.text # NoText /\ (\/ Contains(r.text, "Token is expired")
                                \/ Contains(r.text, "Invalid authorization token"))
        is_uber_token_expired ==
            /\ VendorInfo(req.vendor).implementation = "UBER"
            /\ r.status_code = 500
            /\ r.text = NoText
    IN  req.kind # "TokenGeneration" /\ (is_token_expired \/ is_uber_token_expired)

_is_valid_bearer_token_necessary_everywhere(req, environment) ==
    req.kind # "TokenGeneration" /\ req.bearer = BEARER_PLACE_HOLDER

\* User._is_valid_bearer_token_necessary
_is_valid_bearer_token_necessary(req, environment) ==
    /\ req.kind # "TokenGeneration"
    /\ environment = "PERF"
    /\ req.bearer = BEARER_PLACE_HOLDER

_generate_token_for_request_always_shared(req, body, shared, policy) ==
    LET token == "Bearer " \o get_token(body).value
    IN  [request |-> [req EXCEPT !.bearer = token],
         shared |-> [shared EXCEPT ![req.vendor] = token]]

_generate_token_for_request_shared_only(req, body, shared, policy) ==
    LET token == "Bearer " \o get_token(body).value
    IN  [request |-> IF policy THEN req ELSE [req EXCEPT !.bearer = token],
         shared |-> IF policy THEN [shared EXCEPT ![req.vendor] = token]
                    ELSE shared]

_generate_token_for_request_when_given(req, body, shared, policy) ==
    LET token == "Bearer " \o get_token(body).value
    IN  IF get_token(body).value = NoToken
        THEN [request |-> req, shared |-> shared]
        ELSE [request |-> [req EXCEPT !.bearer = token],
              shared |-> IF policy THEN [shared EXCEPT ![req.vendor] = token]
                         ELSE shared]

\* User._generate_token_for_request, from the return of the token call on:
\* the request and the vendors' shared tokens it leaves.
_generate_token_for_request(req, body, shared, policy) ==
    LET token == "Bearer " \o get_token(body).value
    IN  [request |-> [req EXCEPT !.bearer = token],
         shared |-> IF policy THEN [shared EXCEPT ![req.vendor] = token]
                    ELSE shared]

\* A frame of the call stack: the function, the request it was called with
\* ("request" is the task's, "token_generation_request" the local of
\* _generate_token_for_request), the argument recursed, the line the frame
\* is at, and the HTTP call its `with` block holds (0 outside the block).
SendFrame(req, recursed, at) ==
    [fn |-> "send_request", req |-> req, recursed |-> recursed, at |-> at,
     call |-> 0]

GenerateFrame ==
    [fn |-> "_generate_token_for_request", req |-> "token_generation_request",
     recursed |-> TRUE, at |-> "124", call |-> 0]

Top(stack) == stack[Len(stack)]

Pop(stack) == SubSeq(stack, 1, Len(stack) - 1)

RequestOf(req, ref) ==
    IF ref = "request" THEN req ELSE TokenGeneration(req.vendor)

\* _generate_token_for_request up to its call of
\* send_request(token_generation_request, True), which goes straight to the
\* HTTP call: a TokenGeneration needs no bearer token.
Generate(stack) ==
    stack \o <<GenerateFrame, SendFrame("token_generation_request", TRUE, "81")>>

\* send_request(request, recursed) up to its first HTTP call: lines 76-81.
Enter(stack, req, recursed, environment) ==
    IF _is_valid_bearer_token_necessary(req, environment)
    THEN Generate(Append(stack, SendFrame("request", recursed, "77")))
    ELSE Append(stack, SendFrame("request", recursed, "81"))

Resend_not_recursed(stack, req, environment) ==
    Enter(stack, req, FALSE, environment)

\* return self.send_request(request, True), line 94
Resend(stack, req, environment) ==
    Enter(stack, req, TRUE, environment)

Call_unmarked(ref, recursed, request) ==
    [req |-> ref, recursed |-> recursed, kind |-> request.kind,
     method |-> request.method, bearer |-> request.bearer, expired |-> FALSE,
     mark |-> "none", reported |-> FALSE]

\* An HTTP call of the log: who made it, for which class of request, with
\* which method (method=request.method, line 83) and Authorization header,
\* whether its response was taken for an expired token, how the response
\* context is marked, and whether the `with` block has reported it.
Call(ref, recursed, request) ==
    [req |-> ref, recursed |-> recursed, kind |-> request.kind,
     method |-> request.method, bearer |-> request.bearer, expired |-> FALSE,
     mark |-> "success", reported |-> FALSE]

\* ResponseContextManager.__exit__ of the `with` blocks of every frame.
ReportAll(log) == [i \in DOMAIN log |-> [log[i] EXCEPT !.reported = TRUE]]

\* A task builds its request: GetMenu(), Order(), Release(...),
\* TokenGeneration(), with the fields a caller may give.
Build(u) ==
    /\ send_pc[u] = "idle"
    /\ u \in scenario.users
    /\ \E kind \in scenario.kinds, vendor_info \in scenario.vendor_infos,
          given \in scenario.implementations, codes \in scenario.codes :
         LET vendor_implementations == _setup_vendor_implementations(kind, given)
             setup == _setup_vendor_info(kind, vendor_info, vendor_implementations)
             built == [kind |-> kind, vendor_info |-> vendor_info,
                       vendor_implementations |-> vendor_implementations,
                       raised |-> setup.raised]
         IN  \/ /\ setup.raised # "no"
                /\ build' = [build EXCEPT ![u] = built]
                /\ send_pc' = [send_pc EXCEPT ![u] = "unbuilt"]
                /\ UNCHANGED task_request
             \/ /\ setup.raised = "no"
                /\ \E vendor \in setup.choices :
                     task_request' = [task_request EXCEPT ![u] =
                                    BuiltRequest(kind, vendor, bearer_token, codes)]
                /\ build' = [build EXCEPT ![u] = built]
                /\ send_pc' = [send_pc EXCEPT ![u] = "built"]
    /\ UNCHANGED <<ENVIRONMENT, USE_GLOBAL_AUTH_TOKENS, bearer_token, frames,
                   response, calls, result, scenario>>
    /\ UNCHANGED <<schedVars, queueVars>>

\* The task calls user.send_request(request), or, in token_generation(),
\* user.send_request(TokenGeneration(), True).
SendRequest(u) ==
    /\ send_pc[u] = "built"
    /\ frames' = [frames EXCEPT ![u] =
                    Enter(<<>>, task_request[u], task_request[u].kind = "TokenGeneration",
                          ENVIRONMENT)]
    /\ build' = [build EXCEPT ![u] = NoBuild]
    /\ send_pc' = [send_pc EXCEPT ![u] = "sending"]
    /\ UNCHANGED <<ENVIRONMENT, USE_GLOBAL_AUTH_TOKENS, bearer_token, task_request,
                   response, calls, result, scenario>>
    /\ UNCHANGED <<schedVars, queueVars>>

\* self.client.request(...) of the innermost frame gets its response, and
\* the user runs on to its next HTTP call or to the end of send_request().
Http(u) ==
    /\ send_pc[u] = "sending"
    /\ Len(calls[u]) < MaxCalls
    /\ \E r \in scenario.responses :
         LET stack == frames[u]
             top == Top(stack)
             req == RequestOf(task_request[u], top.req)
             n == Len(calls[u]) + 1
             call == Call(top.req, top.recursed, req)
             parsed == _parse_response_body(r)
             failure == _was_request_a_failure(req, r.status_code, parsed.body)
             marked == [call EXCEPT
                          !.mark = IF parsed.failure \/ (~failure.raised /\ failure.value)
                                   THEN "failure" ELSE "success",
                          !.reported = TRUE]
             below == Pop(stack)
         IN  /\ response' = [response EXCEPT ![u] = r]
             /\ IF ~top.recursed /\ _is_token_invalid(r, req)
                THEN \* lines 92-93: the token is taken for expired
                     /\ calls' = [calls EXCEPT ![u] =
                                    Append(@, [call EXCEPT !.expired = TRUE])]
                     /\ frames' = [frames EXCEPT ![u] =
                                     Generate(Append(below,
                                         [top EXCEPT !.at = "93", !.call = n]))]
                     /\ UNCHANGED <<task_request, bearer_token, result, send_pc>>
                ELSE IF failure.raised
                THEN \* line 97: AttributeError leaves every frame
                     /\ calls' = [calls EXCEPT ![u] = ReportAll(Append(@, marked))]
                     /\ frames' = [frames EXCEPT ![u] = <<>>]
                     /\ send_pc' = [send_pc EXCEPT ![u] = "raised"]
                     /\ UNCHANGED <<task_request, bearer_token, result>>
                ELSE IF below = <<>>
                THEN \* line 100: the body goes back to the task
                     /\ calls' = [calls EXCEPT ![u] = Append(@, marked)]
                     /\ frames' = [frames EXCEPT ![u] = <<>>]
                     /\ result' = [result EXCEPT ![u] = parsed.body]
                     /\ send_pc' = [send_pc EXCEPT ![u] = "done"]
                     /\ UNCHANGED <<task_request, bearer_token>>
                ELSE IF Top(below).fn = "_generate_token_for_request"
                THEN \* lines 125-128, then the caller's line 81 or line 94
                     LET generated == _generate_token_for_request(
                                          task_request[u], parsed.body, bearer_token,
                                          USE_GLOBAL_AUTH_TOKENS)
                         caller == Top(Pop(below))
                         rest == Pop(Pop(below))
                     IN  /\ calls' = [calls EXCEPT ![u] = Append(@, marked)]
                         /\ task_request' = [task_request EXCEPT ![u] = generated.request]
                         /\ bearer_token' = generated.shared
                         /\ frames' = [frames EXCEPT ![u] =
                              IF caller.at = "77"
                              THEN Append(rest, [caller EXCEPT !.at = "81"])
                              ELSE Resend(Append(rest, [caller EXCEPT !.at = "94"]),
                                          generated.request, ENVIRONMENT)]
                         /\ UNCHANGED <<result, send_pc>>
                ELSE \* line 94 returns: the outer `with` block reports, and
                     \* the retry's body goes back to the task
                     /\ calls' = [calls EXCEPT ![u] = ReportAll(Append(@, marked))]
                     /\ frames' = [frames EXCEPT ![u] = <<>>]
                     /\ result' = [result EXCEPT ![u] = parsed.body]
                     /\ send_pc' = [send_pc EXCEPT ![u] = "done"]
                     /\ UNCHANGED <<task_request, bearer_token>>
    /\ UNCHANGED <<ENVIRONMENT, USE_GLOBAL_AUTH_TOKENS, build, scenario>>
    /\ UNCHANGED <<schedVars, queueVars>>

\* The task is over, by a return or by an exception, and the user is given
\* its next task.
TaskEnd(u) ==
    /\ send_pc[u] \in {"unbuilt", "done", "raised"}
    /\ send_pc' = [send_pc EXCEPT ![u] = "idle"]
    /\ build' = [build EXCEPT ![u] = NoBuild]
    /\ task_request' = [task_request EXCEPT ![u] = NoSendRequest]
    /\ response' = [response EXCEPT ![u] = NoResponse]
    /\ calls' = [calls EXCEPT ![u] = <<>>]
    /\ result' = [result EXCEPT ![u] = NoBody]
    /\ UNCHANGED <<ENVIRONMENT, USE_GLOBAL_AUTH_TOKENS, bearer_token, frames, scenario>>
    /\ UNCHANGED <<schedVars, queueVars>>

\* One user whose tasks build requests in every way the constructors allow,
\* against servers that may answer anything.
EveryCall ==
    [users |-> {1}, kinds |-> RequestKinds, vendor_infos |-> GivenVendorInfos,
     implementations |-> GivenImplementations, codes |-> GivenStatusCodes,
     responses |-> Responses, weights |-> ConfiguredWeights]

\* Every user, releasing orders of one vendor as the release task does,
\* against servers that hand out tokens, reject a token as expired, or
\* accept the release.
ConcurrentReleases ==
    [users |-> Users, kinds |-> {"Release"}, vendor_infos |-> {"DOORDASH"},
     implementations |-> {NoImplementations}, codes |-> {NoStatusCodes},
     responses |->
        {[status_code |-> 200, text |-> Text("object", "t1", "{token: t1}")],
         [status_code |-> 200, text |-> Text("object", "t2", "{token: t2}")],
         [status_code |-> 200, text |-> Text("object", NoToken, "{orderId: 1}")],
         [status_code |-> 401,
          text |-> Text("object", NoToken, "{message: Token is expired}")]},
     weights |-> ConfiguredWeights]

\* The weights a catalogue may give its entries.
Weights == {0, 1, 3}

\* One user whose tasks build their requests as tasks.py does, with no
\* vendor given, from a catalogue of the weights `weights`.
WeightedCatalogue(weights) ==
    [users |-> {1}, kinds |-> RequestKinds, vendor_infos |-> {NoVendorInfo},
     implementations |-> GivenImplementations, codes |-> {NoStatusCodes},
     responses |->
        {[status_code |-> 200, text |-> Text("object", "t1", "{token: t1}")],
         [status_code |-> 500, text |-> Text("malformed", NoToken, "")]},
     weights |-> weights]

\* The state before any task: the configuration as config.py may set it,
\* and every vendor's shared token the placeholder (db.py).
SendStart(environment, policy, given) ==
    /\ scenario = given
    /\ ENVIRONMENT = environment
    /\ USE_GLOBAL_AUTH_TOKENS = policy
    /\ bearer_token = [v \in VendorInfos |-> BEARER_PLACE_HOLDER]
    /\ build = [u \in Users |-> NoBuild]
    /\ task_request = [u \in Users |-> NoSendRequest]
    /\ frames = [u \in Users |-> <<>>]
    /\ response = [u \in Users |-> NoResponse]
    /\ calls = [u \in Users |-> <<>>]
    /\ result = [u \in Users |-> NoBody]
    /\ send_pc = [u \in Users |-> "idle"]

----------------------------------------------------------------------------
(* The specifications.                                                     *)

\* The scheduler alone, over every list of valid stages within the bounds.
SchedInit ==
    /\ \E stages \in StageLists : SchedStart(stages)
    /\ QueueStart
    /\ SendStart("PERF", FALSE, EveryCall)

SchedNext == tick \/ Elapse \/ StatsUpdate

SchedSpec == SchedInit /\ [][SchedNext]_vars

\* The stages of config.STAGES.
ConfiguredStages == <<Stage(40, 300, 2), Stage(40, 120, 0), Stage(0, 300, 4)>>

\* The virtual users' order and release tasks and the clock.
QueueInit ==
    /\ SchedStart(ConfiguredStages)
    /\ QueueStart
    /\ SendStart("PERF", FALSE, EveryCall)

QueueNext ==
    \/ \E u \in Users : OrderSend(u)
    \/ \E u \in Users : OrderStamp(u)
    \/ \E u \in Users : OrderPut(u)
    \/ \E u \in Users : ReleasePeek(u)
    \/ \E u \in Users : ReleaseCheck(u)
    \/ \E u \in Users : ReleaseDequeue(u)
    \/ \E u \in Users : ReleaseSend(u)
    \/ ClockAdvance

QueueSpec == QueueInit /\ [][QueueNext]_vars

\* The same with fair scheduling: the clock goes on while the bound allows,
\* every user's task goes on from where it stands, and a user between two
\* tasks is given the release task again and again.
QueueFairness ==
    /\ WF_vars(ClockAdvance)
    /\ \A u \in Users :
          /\ WF_vars(OrderStamp(u))
          /\ WF_vars(OrderPut(u))
          /\ WF_vars(ReleasePeek(u))
          /\ WF_vars(ReleaseCheck(u))
          /\ WF_vars(ReleaseDequeue(u))
          /\ WF_vars(ReleaseSend(u))

QueueFairSpec == QueueInit /\ [][QueueNext]_vars /\ QueueFairness

\* One user's tasks around send_request(), under every environment and
\* either token policy.
SendInit ==
    /\ SchedStart(ConfiguredStages)
    /\ QueueStart
    /\ \E environment \in Environments, policy \in BOOLEAN :
         SendStart(environment, policy, EveryCall)

SendNext ==
    \/ \E u \in Users : Build(u)
    \/ \E u \in Users : SendRequest(u)
    \/ \E u \in Users : Http(u)
    \/ \E u \in Users : TaskEnd(u)

SendSpec == SendInit /\ [][SendNext]_vars

\* Concurrent users' release tasks on the environment that needs tokens,
\* under either token policy.
TokenInit ==
    /\ SchedStart(ConfiguredStages)
    /\ QueueStart
    /\ \E policy \in BOOLEAN : SendStart("PERF", policy, ConcurrentReleases)

TokenSpec == TokenInit /\ [][SendNext]_vars

\* One user's tasks over every catalogue of weights.
CatalogueInit ==
    /\ SchedStart(ConfiguredStages)
    /\ QueueStart
    /\ \E weights \in [VendorInfos -> Weights] :
         SendStart("PERF", FALSE, WeightedCatalogue(weights))

CatalogueSpec == CatalogueInit /\ [][SendNext]_vars

----------------------------------------------------------------------------
(* The scheduler's claims, under SchedSpec.                                *)

\* The scheduler has signalled the end of the run.
Finished == tick_result = None

\* C1: a tick() that finds progress >= 1 with no next stage returns None, and
\* once tick() has returned None every later tick() returns None too.
C1_TerminationIsFinal ==
    [][/\ (tick /\ ProgressGe1(run_time, current_stage)
                /\ current_stage_index + 1 >= Len(STAGES)
             => tick_result' = None)
       /\ (Finished => tick_result' = None)]_vars

\* tick() was called again after the end had been signalled, and returned
\* None again.
C1_Witness ==
    /\ Finished
    /\ current_stage_index > Len(STAGES)

\* C2: the stage index changes only in a tick() that finds progress >= 1, such
\* a tick raises it by exactly 1, and no step lowers it or raises it by more,
\* however much time has passed since the last tick.
C2_OneStagePerTick ==
    [][/\ (current_stage_index' # current_stage_index
             => /\ tick
                /\ ProgressGe1(run_time, current_stage)
                /\ current_stage_index' = current_stage_index + 1)
       /\ (tick /\ ProgressGe1(run_time, current_stage)
             => current_stage_index' = current_stage_index + 1)]_vars

\* A tick() that came after the durations of the first two stages had both
\* elapsed moved to the second stage only.
C2_Witness ==
    /\ Len(STAGES) >= 2
    /\ current_stage_index = 1
    /\ current_stage = STAGES[2]
    /\ tick_result.ret = "value"
    /\ run_time = 0
    /\ tick_run_time >= STAGES[1].minutes_to_reach_target
                          + STAGES[2].minutes_to_reach_target

\* C3, as claimed: the stage index stays within 0..N and, once the end has
\* been signalled, tick() changes none of stage index, current stage and
\* previous stage.
C3_TerminalStateIsStable ==
    /\ [](current_stage_index \in 0..Len(STAGES))
    /\ [][Finished => UNCHANGED <<current_stage_index, current_stage,
                                  previous_stage>>]_vars

\* C4: every value tick() returns has a user count >= 0 and a ramp rate > 0.
C4_UserCountNonNegative ==
    tick_result.ret = "value"
        => /\ tick_result.user_count >= 0
           /\ tick_result.rampup > 0

\* tick() returned a value part of the way through a ramp-down stage.
C4_Witness ==
    /\ tick_result.ret = "value"
    /\ current_stage.target_request_per_sec < previous_stage.target_request_per_sec
    /\ tick_run_time = run_time
    /\ run_time > 0
    /\ ~ProgressGe1(run_time, current_stage)
    /\ tick_result.user_count
         < Ceil(Exact(min_users(stats_avg, previous_stage)), 1000)

----------------------------------------------------------------------------
(* The release queue's claims, under QueueSpec.                            *)

\* How many times x occurs in the sequence seq.
Count(seq, x) == Cardinality({i \in DOMAIN seq : seq[i] = x})

\* C5, as claimed: every Release request sent was sent at least
\* RELEASE_WAIT_TIME_SEC after the timestamp it was put in the queue with.
C5_NoEarlyRelease ==
    \A r \in released_at :
        \E i \in DOMAIN put_log :
            /\ put_log[i][1] = r.request
            /\ r.at - put_log[i][2] >= RELEASE_WAIT_TIME_SEC

\* C6: every entry put is in the queue exactly once or was returned by exactly
\* one dequeue(), never both and never neither; the queue and the dequeues
\* hold nothing that was not put.
C6_NoEntryLostOrDuplicated ==
    /\ \A i \in DOMAIN put_log :
          Count(release_queue, put_log[i]) + Count(dequeue_log, put_log[i][1]) = 1
    /\ \A i \in DOMAIN release_queue : Count(put_log, release_queue[i]) = 1
    /\ \A i \in DOMAIN dequeue_log :
          \E j \in DOMAIN put_log : put_log[j][1] = dequeue_log[i]

\* Two users have dequeued at the same time, each its own entry.
C6_Witness ==
    /\ Len(put_log) = 2
    /\ Len(dequeue_log) = 2
    /\ release_queue = <<>>
    /\ \E u, w \in Users :
          /\ u # w
          /\ pc[u] = "dequeued"
          /\ pc[w] = "dequeued"
          /\ release_request[u] # release_request[w]

\* The entry put earliest among those no dequeue() has returned yet.
StillQueued(i) == Count(dequeue_log, put_log[i][1]) = 0
Oldest ==
    CHOOSE i \in DOMAIN put_log :
        /\ StillQueued(i)
        /\ \A j \in 1..(i - 1) : ~StillQueued(j)

\* C7: dequeue() on a non-empty queue removes and returns the request of the
\* entry put earliest among those still queued, and peek() returns the
\* timestamp of that entry.
C7_FifoByEnqueueOrder ==
    [][\A u \in Users :
         /\ (ReleaseDequeue(u) /\ release_queue # <<>>
               => /\ release_request'[u] = put_log[Oldest][1]
                  /\ dequeue_log' = Append(dequeue_log, put_log[Oldest][1])
                  /\ Len(release_queue') = Len(release_queue) - 1)
         /\ (ReleasePeek(u) /\ release_queue # <<>>
               => order_time'[u] = put_log[Oldest][2])]_vars

\* A then B were put, dequeue() returned A, and the peek() after it returned
\* B's timestamp, which is not A's.
C7_Witness ==
    /\ Len(put_log) = 2
    /\ dequeue_log = <<put_log[1][1]>>
    /\ put_log[1][2] # put_log[2][2]
    /\ last_peek.count >= 1
    /\ \E u \in Users : pc[u] = "peeked" /\ order_time[u] = put_log[2][2]

\* C8: peek() on a non-empty queue leaves the queue as it was, and a peek()
\* that follows another with no put and no dequeue between them returns the
\* same timestamp.
C8_PeekNonDestructive ==
    [][\A u \in Users :
         ReleasePeek(u) /\ release_queue # <<>>
           => /\ release_queue' = release_queue
              /\ (last_peek.count >= 1 => order_time'[u] = last_peek.value)]_vars

\* Two peeks in a row, the queue holding two entries of different timestamps.
C8_Witness ==
    /\ last_peek.count = 2
    /\ Len(release_queue) = 2
    /\ release_queue[1][2] # release_queue[2][2]
    /\ \A u \in Users : pc[u] = "peeked" /\ order_time[u] = release_queue[1][2]

\* C9: peek() on an empty queue raises Empty and leaves the queue empty, and
\* the release task that gets it returns at once: nothing sent, nothing
\* recorded with the harness, Empty caught and no exception let out.
C9_EmptyPeekIsNoOp ==
    [][\A u \in Users :
         ReleasePeek(u) /\ release_queue = <<>>
           => /\ release_queue' = <<>>
              /\ sent' = sent
              /\ released_at' = released_at
              /\ reported' = reported
              /\ pc'[u] = "idle"
              /\ invocation'[u].caught = "Empty"
              /\ invocation'[u].escaped = "none"
              /\ invocation'[u].sent = 0]_vars

\* A release task has found the queue empty, after entries had been through it.
C9_Witness ==
    /\ release_queue = <<>>
    /\ Len(dequeue_log) >= 1
    /\ \E u \in Users :
          /\ pc[u] = "idle"
          /\ invocation[u].task = "release"
          /\ ~invocation[u].peeked
          /\ invocation[u].caught = "Empty"

\* C10, as claimed: a release task that has returned touched and sent nothing
\* if the head it peeked was younger than the wait threshold, and dequeued
\* exactly one entry and sent exactly one request if the head was old enough;
\* no release task dequeues or sends more than one.
C10_OneReleasePerInvocation ==
    \A u \in Users :
        invocation[u].task = "release"
          => /\ invocation[u].dequeued <= 1
             /\ invocation[u].sent <= 1
             /\ (pc[u] = "idle" /\ invocation[u].peeked
                   => IF invocation[u].ready
                      THEN invocation[u].dequeued = 1 /\ invocation[u].sent = 1
                      ELSE invocation[u].dequeued = 0 /\ invocation[u].sent = 0)


----------------------------------------------------------------------------
(* The claims on send_request(), under SendSpec and TokenSpec.             *)

\* The HTTP calls of a user's task so far that carry the task's request,
\* and those that carry a token_generation_request.
Issues(u) == {i \in DOMAIN calls[u] : calls[u][i].req = "request"}

TokenCalls(u) == {i \in DOMAIN calls[u] : calls[u][i].req = "token_generation_request"}

LastCall(u) == calls[u][Len(calls[u])]

\* The user's task has been through send_request() with a request that is
\* no TokenGeneration.
Sent(u) ==
    /\ send_pc[u] \in {"done", "raised"}
    /\ task_request[u].kind # "TokenGeneration"

\* The first attempt of the user's request was taken for an expired token.
FirstAttemptExpired(u) ==
    \E i \in Issues(u) : ~calls[u][i].recursed /\ calls[u][i].expired

\* C11, as claimed: one send_request() of a task issues the request at most
\* twice; a first attempt taken for an expired token is followed by exactly
\* one token call and exactly one second issue of the request; the second
\* issue is never taken for an expired token, and its body is what
\* send_request() returns.
C11_AtMostOneRetry ==
    \A u \in Users :
        /\ Cardinality(Issues(u)) <= 2
        /\ \A i \in Issues(u) : calls[u][i].recursed => ~calls[u][i].expired
        /\ Sent(u) /\ FirstAttemptExpired(u) =>
              /\ Cardinality(Issues(u)) = 2
              /\ Cardinality({i \in TokenCalls(u) :
                     \E j \in Issues(u) : j < i /\ calls[u][j].expired}) = 1
              /\ send_pc[u] = "done"
              /\ result[u] = _parse_response_body(response[u]).body

\* C12, as claimed: when the retry's response is one of an expired token
\* too, the retry is reported to the harness as a failure.
C12_RetryExpiryIsFailure ==
    \A u \in Users :
        /\ send_pc[u] = "done"
        /\ FirstAttemptExpired(u)
        /\ _is_token_invalid(response[u], task_request[u])
        => /\ LastCall(u).req = "request" /\ LastCall(u).recursed
           /\ LastCall(u).reported
           /\ LastCall(u).mark = "failure"

\* C13: send_request() comes to an end.  Every response adds one HTTP call to
\* the task's log, and the log never holds more than two token calls and two
\* issues of the request, so a user inside send_request() has had fewer than
\* four responses and can always take the next.  No token call is taken for
\* an expired token, and the stack never holds _generate_token_for_request
\* twice.
C13_SendTerminates ==
    \A u \in Users :
        /\ Cardinality(TokenCalls(u)) <= 2
        /\ Cardinality(Issues(u)) <= 2
        /\ \A i \in TokenCalls(u) : ~calls[u][i].expired
        /\ Cardinality({i \in DOMAIN frames[u] :
               frames[u][i].fn = "_generate_token_for_request"}) <= 1
        /\ send_pc[u] = "sending" =>
              /\ frames[u] # <<>>
              /\ Top(frames[u]).at = "81"
              /\ Len(calls[u]) < 4
        /\ send_pc[u] # "sending" => frames[u] = <<>>

\* A task got its body back after two token calls and two issues of its
\* request.
C13_Witness ==
    \E u \in Users :
        /\ send_pc[u] = "done"
        /\ Cardinality(TokenCalls(u)) = 2
        /\ Cardinality(Issues(u)) = 2

\* C14: send_request() starts with a token call exactly when the request is
\* no TokenGeneration, the environment is PERF and the request's bearer token
\* is the placeholder; when it does not, the first HTTP call is the request,
\* carrying the bearer token it was built with.
C14_TokenOnlyWhenNecessary ==
    [][\A u \in Users :
          /\ send_pc[u] = "built" /\ send_pc'[u] = "sending" =>
                ( Top(frames'[u]).req = "token_generation_request"
                  <=> /\ task_request[u].kind # "TokenGeneration"
                      /\ ENVIRONMENT = "PERF"
                      /\ task_request[u].bearer = BEARER_PLACE_HOLDER )
          /\ calls[u] = <<>> /\ calls'[u] # <<>> /\ frames[u][1].at = "81" =>
                /\ calls'[u][1].req = "request"
                /\ calls'[u][1].bearer = task_request[u].bearer
      ]_vars

\* On an environment other than PERF a request went out with the
\* placeholder, and no token call before it.
C14_Witness ==
    \E u \in Users :
        /\ ENVIRONMENT # "PERF"
        /\ task_request[u].kind # "TokenGeneration"
        /\ calls[u] # <<>>
        /\ calls[u][1].req = "request"
        /\ calls[u][1].bearer = BEARER_PLACE_HOLDER

\* A token call of user u has just returned to _generate_token_for_request.
Refreshed(u) ==
    /\ Len(calls'[u]) = Len(calls[u]) + 1
    /\ calls'[u][Len(calls'[u])].req = "token_generation_request"
    /\ send_pc'[u] = "sending"

\* C15: with USE_GLOBAL_AUTH_TOKENS off every vendor's shared bearer token
\* stays the placeholder; with it on, a shared token changes only when a
\* token call returns to _generate_token_for_request, only for the vendor of
\* that request, and to the bearer token the request then carries.
C15_SharedTokenWrittenByRefreshOnly ==
    /\ [](~USE_GLOBAL_AUTH_TOKENS =>
            \A v \in VendorInfos : bearer_token[v] = BEARER_PLACE_HOLDER)
    /\ [][/\ bearer_token' # bearer_token =>
                /\ USE_GLOBAL_AUTH_TOKENS
                /\ \E u \in Users :
                     /\ Refreshed(u)
                     /\ bearer_token' =
                           [bearer_token EXCEPT ![task_request[u].vendor] =
                               task_request'[u].bearer]
          /\ \A u \in Users :
                USE_GLOBAL_AUTH_TOKENS /\ Refreshed(u) =>
                   bearer_token'[task_request[u].vendor] = task_request'[u].bearer
         ]_vars

\* Two users are inside send_request() for the same vendor, one of them with
\* the token of its own refresh, the other with the vendor's shared token as
\* a later refresh has left it.
C15_Witness ==
    /\ USE_GLOBAL_AUTH_TOKENS
    /\ \E u, w \in Users :
         /\ u # w
         /\ task_request[u].vendor = task_request[w].vendor
         /\ TokenCalls(u) # {} /\ TokenCalls(w) # {}
         /\ task_request[u].bearer # task_request[w].bearer
         /\ bearer_token[task_request[w].vendor] = task_request[w].bearer
         /\ task_request[w].bearer # BEARER_PLACE_HOLDER

\* The request of the user's last HTTP call; its response is response[u].
LastRequest(u) == RequestOf(task_request[u], LastCall(u).req)

\* The user's last response went through _parse_response_body and
\* _was_request_a_failure.
Classified(u) ==
    /\ calls[u] # <<>>
    /\ ~LastCall(u).expired
    /\ send_pc[u] # "raised"

\* C16, as claimed: a TokenGeneration is marked a failure exactly when its
\* body has no token, and any other request whose body parses exactly when
\* its status code is not among its success_status_codes.
C16_FailureClassification ==
    \A u \in Users :
        Classified(u) =>
           IF LastRequest(u).kind = "TokenGeneration"
           THEN LastCall(u).mark = "failure"
                   <=> get_token(_parse_response_body(response[u]).body).value = NoToken
           ELSE ~json(response[u]).raised =>
                   ( LastCall(u).mark = "failure"
                     <=> response[u].status_code
                            \notin LastRequest(u).success_status_codes )

C18_UberExpiryDetection ==
    \A u \in Users :
        /\ calls[u] # <<>>
        /\ LastCall(u).req = "request"
        /\ ~LastCall(u).recursed
        /\ task_request[u].kind # "TokenGeneration"
        /\ VendorInfo(task_request[u].vendor).implementation = "UBER"
        => ( LastCall(u).expired
             <=> response[u].status_code = 500 /\ response[u].text.says = "" )

\* C19, as claimed: send_request() raises no error.
C19_SendNeverRaises ==
    \A u \in Users : send_pc[u] # "raised"

\* C20: a GetMenu, Order or Release built with a vendor that is not among
\* its vendor_implementations raises RequestNotImplementedException and
\* leaves no request; built with no vendor, it gets a vendor that is among
\* them.
C20_VendorMustBeImplemented ==
    \A u \in Users :
        send_pc[u] \in {"built", "unbuilt"} /\ build[u].kind # "TokenGeneration" =>
           /\ /\ build[u].vendor_info # NoVendorInfo
              /\ build[u].vendor_info \notin build[u].vendor_implementations
              => /\ build[u].raised = "RequestNotImplementedException"
                 /\ send_pc[u] = "unbuilt"
                 /\ task_request[u] = NoSendRequest
           /\ build[u].vendor_info = NoVendorInfo /\ send_pc[u] = "built" =>
                 task_request[u].vendor \in build[u].vendor_implementations

\* A GetMenu was asked of a vendor that has none.
C20_Witness ==
    \E u \in Users :
        /\ send_pc[u] = "unbuilt"
        /\ build[u].kind = "GetMenu"
        /\ build[u].vendor_info = "UBEREATS"
        /\ build[u].raised = "RequestNotImplementedException"

----------------------------------------------------------------------------
(* The claims on the vendor catalogue, under CatalogueSpec.                *)

\* C21: a request built with no vendor given gets an entry of the catalogue
\* whose vendor is among the implemented ones (every vendor, for a
\* TokenGeneration) and whose weight is above zero; an entry of weight 0 is
\* never the one drawn.
C21_WeightedSelection ==
    \A u \in Users :
        send_pc[u] = "built" /\ build[u].vendor_info = NoVendorInfo =>
           /\ task_request[u].vendor \in VendorInfos
           /\ task_request[u].vendor \in
                 (IF build[u].kind = "TokenGeneration" THEN Vendor
                  ELSE build[u].vendor_implementations)
           /\ scenario.weights[task_request[u].vendor] > 0

\* An Order got its vendor from a catalogue in which another vendor it is
\* implemented for has weight 0.
C21_Witness ==
    \E u \in Users :
        /\ send_pc[u] = "built"
        /\ build[u].kind = "Order"
        /\ build[u].vendor_info = NoVendorInfo
        /\ \E v \in VendorInfos :
              /\ v \in build[u].vendor_implementations
              /\ scenario.weights[v] = 0
              /\ v # task_request[u].vendor

\* C22: a tick() that returns a value in a stage with curve = 0 returns
\* ceil(avg_response_time * current_stage.target_request_per_sec), the
\* average being the one the call read.
C22_FlatStageHoldsTargetRate ==
    [][tick /\ tick_result'.ret = "value" /\ current_stage'.curve = 0
          => tick_result'.user_count =
                float_ceil(Float(Product(avg_response_time(stats_avg),
                                         current_stage'.target_request_per_sec)))]_vars

----------------------------------------------------------------------------
(* The claims on the order and release tasks, under QueueSpec.             *)

\* The Release request order() builds from the Order request it sent.
ReleaseOf(request) ==
    Release(request.vendor, request.store_id, request.order_id)

\* C23: an order task enqueues exactly one entry: once its order call is made
\* it goes on to the put, the put appends one entry and ends the task; the
\* entry carries the vendor, store and order id of the order request that
\* was sent, and a timestamp read as the current time after the call returned
\* and not later than the put; the queue only grows by such a put, and every
\* entry in it comes from an order that was sent.
C23_OneEntryPerOrder ==
    /\ [](\A i \in DOMAIN release_queue :
             \E o \in sent : o.kind = "Order" /\ release_queue[i][1] = ReleaseOf(o))
    /\ [][\A u \in Users :
            /\ OrderSend(u) => pc'[u] = "order_sent"
            /\ entry'[u] # entry[u] /\ entry'[u] # NoEntry
                 => /\ pc[u] = "order_sent"
                    /\ order_request[u] \in sent
                    /\ entry'[u] = <<ReleaseOf(order_request[u]), now>>
            /\ OrderPut(u)
                 => /\ release_queue' = Append(release_queue, entry[u])
                    /\ entry[u][1] = ReleaseOf(order_request[u])
                    /\ entry[u][2] <= now
                    /\ pc'[u] = "idle"
            /\ Len(release_queue') > Len(release_queue)
                 => \E w \in Users : OrderPut(w)]_vars

\* The same with the first conjunct of the step formula left to the order
\* calls that return.
C23_WhenTheCallReturns ==
    /\ [](\A i \in DOMAIN release_queue :
             \E o \in sent : o.kind = "Order" /\ release_queue[i][1] = ReleaseOf(o))
    /\ [][\A u \in Users :
            /\ OrderSend(u) /\ invocation'[u].escaped = "none"
                 => pc'[u] = "order_sent"
            /\ entry'[u] # entry[u] /\ entry'[u] # NoEntry
                 => /\ pc[u] = "order_sent"
                    /\ order_request[u] \in sent
                    /\ entry'[u] = <<ReleaseOf(order_request[u]), now>>
            /\ OrderPut(u)
                 => /\ release_queue' = Append(release_queue, entry[u])
                    /\ entry[u][1] = ReleaseOf(order_request[u])
                    /\ entry[u][2] <= now
                    /\ pc'[u] = "idle"
            /\ Len(release_queue') > Len(release_queue)
                 => \E w \in Users : OrderPut(w)]_vars

\* The entry of the order `id` is in the queue, and it and every entry ahead
\* of it are old enough before the clock of the model stops.
Due(id) ==
    \E i \in DOMAIN release_queue :
        /\ release_queue[i][1].order_id = id
        /\ \A j \in 1..i : release_queue[j][2] + RELEASE_WAIT_TIME_SEC <= MaxTime

\* The release of the order `id` was taken from the queue and sent.
Released(id) ==
    /\ \E i \in DOMAIN dequeue_log : dequeue_log[i].order_id = id
    /\ \E r \in sent : r.kind = "Release" /\ r.order_id = id

\* C24: with the clock advancing and release tasks invoked again and again,
\* every entry in the queue is in the end dequeued and its request sent.
C24_EveryEntryReleased ==
    \A id \in OrderIds : Due(id) ~> Released(id)

\* The same for the runs in which no exception leaves send_request.
C24_WhenNoCallRaises ==
    [](\A u \in Users : invocation[u].escaped = "none")
        => (\A id \in OrderIds : Due(id) ~> Released(id))

----------------------------------------------------------------------------
(* The claim on concurrent refreshes of a shared token, under TokenSpec.   *)

\* C25: with USE_GLOBAL_AUTH_TOKENS on and users refreshing the same vendor's
\* shared token at the same time, a request is issued at most twice and never
\* with the placeholder; its second issue comes right after a token call of
\* its own send_request() and is not taken for an expired token; the token a
\* request carries after a token call is the one that call returned,
\* whatever the shared token has become, and a request inside
\* send_request() changes at no other step.
C25_StaleTokenHeals ==
    /\ [](USE_GLOBAL_AUTH_TOKENS =>
            \A u \in Users :
               /\ Cardinality(Issues(u)) <= 2
               /\ \A i \in Issues(u) :
                     /\ calls[u][i].bearer # BEARER_PLACE_HOLDER
                     /\ calls[u][i].recursed =>
                           /\ ~calls[u][i].expired
                           /\ i - 1 \in TokenCalls(u)
                           /\ i - 2 \in Issues(u) /\ calls[u][i - 2].expired
                           /\ calls[u][i].bearer = task_request[u].bearer)
    /\ [][USE_GLOBAL_AUTH_TOKENS =>
            \A u \in Users :
               /\ Refreshed(u) =>
                     task_request'[u].bearer =
                        "Bearer " \o get_token(_parse_response_body(response'[u]).body).value
               /\ send_pc[u] = "sending" /\ task_request'[u] # task_request[u]
                     => Refreshed(u)]_vars

\* A release was built with the shared token another user's refresh had
\* left, was rejected, got a token of its own and went out again with it,
\* while the other user's next refresh had put yet another token in the
\* shared field.
C25_Witness ==
    /\ USE_GLOBAL_AUTH_TOKENS
    /\ \E u, w \in Users :
         /\ u # w
         /\ task_request[u].vendor = task_request[w].vendor
         /\ send_pc[u] = "done"
         /\ Len(calls[u]) = 3
         /\ calls[u][1].req = "request" /\ calls[u][1].expired
         /\ calls[u][1].bearer = "Bearer t1"
         /\ calls[u][2].req = "token_generation_request"
         /\ calls[u][3].req = "request" /\ calls[u][3].recursed
         /\ calls[u][3].bearer = "Bearer t2"
         /\ TokenCalls(w) # {}
         /\ bearer_token[task_request[u].vendor] = "Bearer t1"

----------------------------------------------------------------------------
(* Further claims on the scheduler, under SchedSpec.                       *)

\* C26: the user count a tick() returns is, at the average response time it
\* read, at least what a tick() at any earlier run time of the same stage
\* returns when the stage's target rate is at least the previous stage's,
\* and at most that when it is lower.
C26_MonotoneWithinStage ==
    [][tick /\ tick_result'.ret = "value" =>
          \A rt \in 0..run_time' :
             LET earlier == user_count(stats_avg, rt, current_stage', previous_stage')
             IN  IF current_stage'.target_request_per_sec
                       >= previous_stage'.target_request_per_sec
                 THEN earlier <= tick_result'.user_count
                 ELSE earlier >= tick_result'.user_count]_vars

\* Part of the way through a ramp-down stage with a curve, tick() has
\* returned fewer users than it returns at the start of the stage.
C26_Witness ==
    /\ tick_result.ret = "value"
    /\ tick_run_time = run_time
    /\ run_time > 0
    /\ current_stage.curve > 0
    /\ current_stage.target_request_per_sec < previous_stage.target_request_per_sec
    /\ tick_result.user_count
          < user_count(stats_avg, 0, current_stage, previous_stage)
    /\ tick_result.user_count > 0

\* C28, as claimed: a tick() that finds progress >= 1 with a next stage to go
\* to returns a value; the previous stage is then the stage just finished and
\* the current stage the next of the list; the count is the one of the new
\* stage at progress 0 and, when the new stage has a curve above 0,
\* ceil(avg_response_time * the finished stage's target rate).
C28_ContinuousAcrossStages ==
    [][tick /\ ProgressGe1(run_time, current_stage)
            /\ current_stage_index + 1 < Len(STAGES)
         => /\ tick_result'.ret = "value"
            /\ previous_stage' = current_stage
            /\ current_stage' = STAGES[current_stage_index + 2]
            /\ run_time' = 0
            /\ tick_result'.user_count =
                  user_count(stats_avg, 0, current_stage', previous_stage')
            /\ current_stage'.curve > 0 =>
                  tick_result'.user_count =
                     Ceil(Exact(Product(avg_response_time(stats_avg),
                                        current_stage.target_request_per_sec)),
                          1000)]_vars

\* The same with the count left free to be one above, as it is when the clock
\* has moved between reset_time() and the reading of the progress.
C28_UpToTheClock ==
    [][tick /\ ProgressGe1(run_time, current_stage)
            /\ current_stage_index + 1 < Len(STAGES)
         => /\ tick_result'.ret = "value"
            /\ previous_stage' = current_stage
            /\ current_stage' = STAGES[current_stage_index + 2]
            /\ run_time' = 0
            /\ tick_result'.user_count - user_count(stats_avg, 0, current_stage',
                                                    previous_stage') \in {0, 1}
            /\ current_stage'.curve > 0 =>
                  tick_result'.user_count
                     - Ceil(Exact(Product(avg_response_time(stats_avg),
                                          current_stage.target_request_per_sec)),
                            1000) \in {0, 1}]_vars

----------------------------------------------------------------------------
(* Further claims on the release queue, under QueueSpec                    *)

\* C27, as claimed: the timestamps stored in the release queue never decrease
\* from head to tail, so whenever any entry of the queue is old enough to be
\* released the head entry is old enough too.
C27_QueueTimeOrdered ==
    /\ \A i, j \in 1..Len(release_queue) :
          i < j => release_queue[i][2] <= release_queue[j][2]
    /\ \A i \in 1..Len(release_queue) :
          now - release_queue[i][2] >= RELEASE_WAIT_TIME_SEC
             => now - release_queue[1][2] >= RELEASE_WAIT_TIME_SEC

\* What the queue does keep: its entries from head to tail are in the order
\* of their put() calls, whatever their timestamps.
C27_OrderedByPut ==
    \E k \in 0..Len(put_log) :
        release_queue = SubSeq(put_log, k + 1, Len(put_log))

\* C29: a release task that peeked an entry old enough and then finds the
\* queue emptied by another release task gets Empty from dequeue() and ends
\* there: the queue stays empty, nothing is sent or reported, the exception
\* is caught and none leaves the task.
C29_LostRaceIsNoOp ==
    [][\A u \in Users :
         ReleaseDequeue(u) /\ release_queue = <<>>
           => /\ release_queue' = <<>>
              /\ sent' = sent
              /\ released_at' = released_at
              /\ reported' = reported
              /\ dequeue_log' = dequeue_log
              /\ pc'[u] = "idle"
              /\ release_request'[u] = NoRequest
              /\ invocation'[u].caught = "Empty"
              /\ invocation'[u].escaped = "none"
              /\ invocation'[u].dequeued = 0
              /\ invocation'[u].sent = 0]_vars

\* A release task has returned after peeking an entry old enough and finding
\* the queue empty at its dequeue(), the entry being with another release task.
C29_Witness ==
    \E u, v \in Users :
        /\ u # v
        /\ pc[u] = "idle"
        /\ invocation[u].task = "release"
        /\ invocation[u].peeked
        /\ invocation[u].ready
        /\ invocation[u].caught = "Empty"
        /\ invocation[u].dequeued = 0
        /\ invocation[v].task = "release"
        /\ invocation[v].dequeued = 1
        /\ release_queue = <<>>

----------------------------------------------------------------------------
(* Further claims on send_request, under SendSpec                          *)

\* The calls of a user's log made for the task's own request.
OwnCalls(u) == {i \in DOMAIN calls[u] : calls[u][i].req = "request"}

\* The mark the failure rules give a response to the request.
MarkByRules(req, r) ==
    IF \/ _parse_response_body(r).failure
       \/ _was_request_a_failure(req, r.status_code,
                                 _parse_response_body(r).body).value
    THEN "failure" ELSE "success"

\* C30: a call whose response was taken for an expired token is a first
\* attempt at the task's request and stays marked a success; once
\* send_request has returned after such an attempt, the harness holds two
\* reported outcomes for the request, the expired attempt as a success and
\* the retry, the last call, marked as the failure rules classify its
\* response.
C30_ExpiredAttemptCountsAsSuccess ==
    \A u \in Users :
        /\ \A i \in DOMAIN calls[u] :
              calls[u][i].expired
                 => /\ calls[u][i].req = "request"
                    /\ ~calls[u][i].recursed
                    /\ calls[u][i].mark = "success"
        /\ send_pc[u] = "done" /\ (\E i \in DOMAIN calls[u] : calls[u][i].expired)
             => /\ Cardinality(OwnCalls(u)) = 2
                /\ \A i \in OwnCalls(u) : calls[u][i].reported
                /\ LET retry == calls[u][Len(calls[u])]
                   IN  /\ retry.req = "request"
                       /\ retry.recursed
                       /\ ~retry.expired
                       /\ retry.mark = MarkByRules(task_request[u], response[u])

\* send_request has returned after an expired first attempt, reported as a
\* success, and a retry the failure rules marked a failure.
C30_Witness ==
    \E u \in Users :
        /\ send_pc[u] = "done"
        /\ \E i \in DOMAIN calls[u] :
              /\ calls[u][i].expired
              /\ calls[u][i].mark = "success"
              /\ calls[u][i].reported
        /\ calls[u][Len(calls[u])].recursed
        /\ calls[u][Len(calls[u])].req = "request"
        /\ calls[u][Len(calls[u])].mark = "failure"

\* _generate_token_for_request is at its last lines in this step: the token
\* call it made returns to it.
RefreshReturns(u) ==
    /\ Http(u)
    /\ Len(frames[u]) >= 2
    /\ Top(Pop(frames[u])).fn = "_generate_token_for_request"
    /\ send_pc'[u] = "sending"

\* The token the response of the token call carried, "None" when it carried
\* none.
TokenOf(r) == get_token(_parse_response_body(r).body).value

\* A pre-send token acquisition (line 77) is under way only before any token
\* call was made for the request.
AcquiresOnlyFirst ==
    \A u \in Users :
        (\E k \in DOMAIN frames[u] : frames[u][k].at = "77")
           => /\ calls[u] = <<>>
              /\ task_request[u].bearer = BEARER_PLACE_HOLDER

C32_MenuLookupIssuedWithGet ==
    \A u \in Users : \A i \in DOMAIN calls[u] :
        calls[u][i].method = IF calls[u][i].kind = "GetMenu" THEN "GET" ELSE "POST"

\* What goes out: every call is a POST, the GetMenu's too, whose GET stays in
\* a field send_request never reads.
C32_EveryCallIsPost ==
    \A u \in Users :
        /\ \A i \in DOMAIN calls[u] : calls[u][i].method = "POST"
        /\ task_request[u].kind = "GetMenu"
             => /\ task_request[u].request_method = "GET"
                /\ task_request[u].method = "POST"

=============================================================================
